---- MODULE Spec2Model ----
(***************************************************************************)
(* Model of the KIT image compositor (src/src/main.rs): the group layout   *)
(* engine Group::calculate_positions, its relative positioning pass, and   *)
(* the driver loop of main that measures, places and draws the layers of   *)
(* each group of a template.                                               *)
(*                                                                         *)
(* Coordinates are u32 in the source.  The inputs below stay far under     *)
(* 2^32, so no addition or multiplication overflows; the subtractions the  *)
(* source guards with saturating_sub are modelled by SatSub.               *)
(***************************************************************************)
EXTENDS Integers, Sequences, FiniteSets, TLC

VARIABLES
    groups,      \* template.groups: each a layout and its layers
    gi,          \* index of the group main is processing
    pc,          \* where main stands
    layer_info,  \* layer_info of the current group: (dims, info) per measured layer
    li,          \* index of the next layer to measure or to draw
    positions,   \* positions returned by calculate_positions for the current group
    drawn,       \* the layers drawn on the canvas so far, in drawing order
    saved,       \* output/result.png has been written
    resolved     \* result of the relative positioning pass applied on its own

vars == <<groups, gi, pc, layer_info, li, positions, drawn, saved, resolved>>

(***************************************************************************)
(* Bounds of the model.                                                    *)
(***************************************************************************)
MaxLayers == 3
MaxUniform == 4
MaxColumns == 2
MaxGroups == 2
MaxGroupLayers == 2
MaxPassLayers == 3

(***************************************************************************)
(* Arithmetic helpers: u32::saturating_sub, Iterator::sum, Iterator::max   *)
(* with unwrap_or(0).                                                      *)
(***************************************************************************)
SatSub(a, b) == IF a >= b THEN a - b ELSE 0

RECURSIVE SumSeq(_)
SumSeq(s) == IF s = <<>> THEN 0 ELSE Head(s) + SumSeq(Tail(s))

RECURSIVE MaxSeq(_)
MaxSeq(s) ==
    IF s = <<>> THEN 0
    ELSE LET m == MaxSeq(Tail(s)) IN IF Head(s) >= m THEN Head(s) ELSE m

\* iter().take(k)
Take(s, k) == SubSeq(s, 1, IF k <= Len(s) THEN k ELSE Len(s))

\* iter().skip(k)
Skip(s, k) == IF k >= Len(s) THEN <<>> ELSE SubSeq(s, k + 1, Len(s))

\* iter().step_by(k), k >= 1: the elements at 0-based indices 0, k, 2k, ...
StepBy(s, k) ==
    [j \in 1..((Len(s) + k - 1) \div k) |-> s[(j - 1) * k + 1]]

Widths(info) == [i \in 1..Len(info) |-> info[i].dims.width]
Heights(info) == [i \in 1..Len(info) |-> info[i].dims.height]

(***************************************************************************)
(* Template values.                                                        *)
(***************************************************************************)
Canvas == [kind |-> "Canvas", name |-> ""]
Layer(n) == [kind |-> "Layer", name |-> n]

\* Option<Position>::None of LayerInfo.position
NoPosition == [some |-> FALSE, x |-> 0, y |-> 0, relative_to |-> Canvas]
SomePosition(px, py, rel) == [some |-> TRUE, x |-> px, y |-> py, relative_to |-> rel]

\* Option<DistributionBounds>
NoBounds == [some |-> FALSE, width |-> 0, height |-> 0]
SomeBounds(w, h) == [some |-> TRUE, width |-> w, height |-> h]

\* Option<DistributionConfig>; "None" is Option<Distribution>::None
NoDistribution ==
    [some |-> FALSE, horizontal |-> "None", vertical |-> "None", bounds |-> NoBounds]
SomeDistribution(hm, vm, b) ==
    [some |-> TRUE, horizontal |-> hm, vertical |-> vm, bounds |-> b]

default_columns == 1
default_spacing == 0

(***************************************************************************)
(* GroupPosition::get_aligned_position                                     *)
(***************************************************************************)
\* get_aligned_position with plain subtraction in place of saturating_sub
GetAlignedPositionNoSat(position, content_size, container_size) ==
    LET x == CASE position.align = "Left" -> position.x
               [] position.align = "Center" ->
                    position.x + (container_size[1] - content_size[1]) \div 2
               [] position.align = "Right" ->
                    position.x + (container_size[1] - content_size[1])
    IN  <<x, position.y>>

GetAlignedPosition(position, content_size, container_size) ==
    LET x == CASE position.align = "Left" -> position.x
               [] position.align = "Center" ->
                    position.x + SatSub(container_size[1], content_size[1]) \div 2
               [] position.align = "Right" ->
                    position.x + SatSub(container_size[1], content_size[1])
    IN  <<x, position.y>>

(***************************************************************************)
(* Group::calculate_positions, "Calculate total dimensions"                *)
(***************************************************************************)
GridRows(n, columns) == (n + columns - 1) \div columns

TotalDimensions(layout, info) ==
    LET n == Len(info) IN
    CASE layout.layout_type = "Horizontal" ->
           <<SumSeq(Widths(info)) + SatSub(n, 1) * layout.spacing,
             MaxSeq(Heights(info))>>
      [] layout.layout_type = "Grid" ->
           LET columns == layout.columns
               rows == GridRows(n, columns)
               max_width_per_column ==
                   [c \in 1..columns |->
                       MaxSeq(StepBy(Skip(Widths(info), c - 1), columns))]
               max_height_per_row ==
                   [r \in 1..rows |->
                       MaxSeq(Take(Skip(Heights(info), (r - 1) * columns), columns))]
           IN  <<SumSeq(max_width_per_column) + SatSub(columns, 1) * layout.spacing,
                 SumSeq(max_height_per_row) + SatSub(rows, 1) * layout.spacing>>
      [] layout.layout_type = "Vertical" ->
           <<MaxSeq(Widths(info)),
             SumSeq(Heights(info)) + SatSub(n, 1) * layout.spacing>>

(***************************************************************************)
(* "Apply group alignment": the group's base x (current_x); current_y is   *)
(* always layout.position.y.                                               *)
(***************************************************************************)
\* the group alignment taking the content extent as the container even when
\* the distribution config gives bounds
CurrentXContentSized(layout, info) ==
    LET total == TotalDimensions(layout, info) IN
    GetAlignedPosition(layout.position, total, total)[1]

CurrentX(layout, info) ==
    LET total == TotalDimensions(layout, info) IN
    IF layout.distribution.some
    THEN IF layout.distribution.bounds.some
         THEN GetAlignedPosition(layout.position, total,
                  <<layout.distribution.bounds.width,
                    layout.distribution.bounds.height>>)[1]
         ELSE layout.position.x
    ELSE GetAlignedPosition(layout.position, total, total)[1]

CurrentY(layout) == layout.position.y

(***************************************************************************)
(* Grid with a distribution config: bounds, h_spacing, v_spacing, init_x,  *)
(* init_y and the placement loop.                                          *)
(***************************************************************************)
FirstRowWidth(layout, info) == SumSeq(Take(Widths(info), layout.columns))

FirstColumnHeight(layout, info) ==
    SumSeq(Take(StepBy(Heights(info), layout.columns),
                GridRows(Len(info), layout.columns)))

DistBounds(layout, info) ==
    IF layout.distribution.bounds.some
    THEN <<layout.distribution.bounds.width, layout.distribution.bounds.height>>
    ELSE <<FirstRowWidth(layout, info), FirstColumnHeight(layout, info)>>

HSpacing(layout, info) ==
    LET columns == layout.columns
        bounds == DistBounds(layout, info)
        content_width == FirstRowWidth(layout, info)
        mode == layout.distribution.horizontal
    IN  CASE mode = "SpaceBetween" ->
               IF columns > 1
               THEN SatSub(bounds[1], content_width) \div (columns - 1)
               ELSE 0
          [] mode = "SpaceAround" ->
               SatSub(bounds[1], content_width) \div (columns + 1)
          [] mode = "SpaceEvenly" ->
               SatSub(bounds[1], content_width) \div (columns + 1)
          [] mode = "None" -> layout.spacing

VSpacing(layout, info) ==
    LET rows == GridRows(Len(info), layout.columns)
        bounds == DistBounds(layout, info)
        content_height == FirstColumnHeight(layout, info)
        mode == layout.distribution.vertical
    IN  CASE mode = "SpaceBetween" ->
               IF rows > 1
               THEN SatSub(bounds[2], content_height) \div (rows - 1)
               ELSE 0
          [] mode = "SpaceAround" ->
               SatSub(bounds[2], content_height) \div (rows + 1)
          [] mode = "SpaceEvenly" ->
               SatSub(bounds[2], content_height) \div (rows + 1)
          [] mode = "None" -> layout.spacing

InitX(layout, info) ==
    IF layout.distribution.horizontal \in {"SpaceAround", "SpaceEvenly"}
    THEN HSpacing(layout, info) ELSE 0

InitY(layout, info) ==
    IF layout.distribution.vertical \in {"SpaceAround", "SpaceEvenly"}
    THEN VSpacing(layout, info) ELSE 0

\* The loop "for (dims, _) in layers_info" of the distribution grid: item i
\* is pushed at (x, y), then col, x and y advance; row_x is current_x + init_x.
RECURSIVE GridDistLoop(_, _, _, _, _, _, _, _, _, _)
GridDistLoop(columns, info, row_x, h_spacing, v_spacing, i, x, y, col, acc) ==
    IF i > Len(info) THEN acc
    ELSE LET dims == info[i].dims
             pushed == Append(acc, [x |-> x, y |-> y, relative_to |-> Canvas])
         IN  IF col + 1 >= columns
             THEN GridDistLoop(columns, info, row_x, h_spacing, v_spacing, i + 1,
                               row_x, y + dims.height + v_spacing, 0, pushed)
             ELSE GridDistLoop(columns, info, row_x, h_spacing, v_spacing, i + 1,
                               x + dims.width + h_spacing, y, col + 1, pushed)

PlaceGridDistributed(layout, info) ==
    LET row_x == CurrentX(layout, info) + InitX(layout, info)
        h_spacing == HSpacing(layout, info)
        v_spacing == VSpacing(layout, info)
    IN  GridDistLoop(layout.columns, info, row_x, h_spacing, v_spacing, 1,
                     row_x, CurrentY(layout) + InitY(layout, info), 0, <<>>)

\* the fallback grid with row and column exchanged
PlaceGridFallbackSwapped(layout, info) ==
    LET current_x == CurrentX(layout, info) IN
    [i \in 1..Len(info) |->
        LET row == (i - 1) \div layout.columns
            col == (i - 1) % layout.columns
            dims == info[i].dims
        IN  [x |-> current_x + row * (dims.width + layout.spacing),
             y |-> CurrentY(layout) + col * (dims.height + layout.spacing),
             relative_to |-> Canvas]]

\* "Fallback to original grid layout"
PlaceGridFallback(layout, info) ==
    LET current_x == CurrentX(layout, info) IN
    [i \in 1..Len(info) |->
        LET row == (i - 1) \div layout.columns
            col == (i - 1) % layout.columns
            dims == info[i].dims
        IN  [x |-> current_x + col * (dims.width + layout.spacing),
             y |-> CurrentY(layout) + row * (dims.height + layout.spacing),
             relative_to |-> Canvas]]

\* the vertical placement with the spacing left out of y_offset
PlaceVerticalNoSpacing(layout, info) ==
    LET current_x == CurrentX(layout, info) IN
    [i \in 1..Len(info) |->
        [x |-> current_x,
         y |-> CurrentY(layout)
                 + SumSeq([j \in 1..(i - 1) |-> info[j].dims.height]),
         relative_to |-> Canvas]]

\* LayoutType::Vertical: y_offset accumulates dims.height + spacing
PlaceVertical(layout, info) ==
    LET current_x == CurrentX(layout, info) IN
    [i \in 1..Len(info) |->
        [x |-> current_x,
         y |-> CurrentY(layout)
                 + SumSeq([j \in 1..(i - 1) |-> info[j].dims.height + layout.spacing]),
         relative_to |-> Canvas]]

\* the horizontal placement handing on the relative_to the layer declared
PlaceHorizontalDeclared(layout, info) ==
    LET current_x == CurrentX(layout, info) IN
    [i \in 1..Len(info) |->
        [x |-> current_x
                 + SumSeq([j \in 1..(i - 1) |-> info[j].dims.width + layout.spacing]),
         y |-> CurrentY(layout),
         relative_to |-> IF info[i].info.position.some
                         THEN info[i].info.position.relative_to
                         ELSE Canvas]]

\* LayoutType::Horizontal: x_offset accumulates dims.width + spacing
PlaceHorizontal(layout, info) ==
    LET current_x == CurrentX(layout, info) IN
    [i \in 1..Len(info) |->
        [x |-> current_x
                 + SumSeq([j \in 1..(i - 1) |-> info[j].dims.width + layout.spacing]),
         y |-> CurrentY(layout),
         relative_to |-> Canvas]]

\* The match on layout_type that fills `positions`
PlacePositions(layout, info) ==
    CASE layout.layout_type = "Grid" ->
           IF layout.distribution.some
           THEN PlaceGridDistributed(layout, info)
           ELSE PlaceGridFallback(layout, info)
      [] layout.layout_type = "Vertical" -> PlaceVertical(layout, info)
      [] layout.layout_type = "Horizontal" -> PlaceHorizontal(layout, info)

(***************************************************************************)
(* The relative positioning pass over `positions`.                         *)
(***************************************************************************)
\* layers_info.iter().enumerate().find(|..| info.name == *layer_name):
\* the first index with that name, 0 when there is none
FindLayer(info, layer_name) ==
    LET hits == {j \in 1..Len(info) : info[j].info.name = layer_name} IN
    IF hits = {} THEN 0
    ELSE CHOOSE j \in hits : \A k \in hits : j <= k

\* relative_adjustments: the (i, ref_idx) pairs, in index order
RECURSIVE RelativeAdjustmentsFrom(_, _, _)
RelativeAdjustmentsFrom(pos, info, i) ==
    IF i > Len(pos) THEN <<>>
    ELSE LET rest == RelativeAdjustmentsFrom(pos, info, i + 1)
             ref_idx == FindLayer(info, pos[i].relative_to.name)
         IN  IF pos[i].relative_to.kind = "Layer" /\ ref_idx # 0
             THEN <<<<i, ref_idx>>>> \o rest
             ELSE rest

RelativeAdjustments(pos, info) == RelativeAdjustmentsFrom(pos, info, 1)

\* "Apply relative positioning": in place, one adjustment after the other
RECURSIVE ApplyAdjustments(_, _)
ApplyAdjustments(pos, adj) ==
    IF adj = <<>> THEN pos
    ELSE LET target_idx == Head(adj)[1]
             ref_pos == pos[Head(adj)[2]]
         IN  ApplyAdjustments(
                 [pos EXCEPT ![target_idx] =
                     [@ EXCEPT !.x = ref_pos.x, !.y = ref_pos.y]],
                 Tail(adj))

\* a pass that reads the declared relative_to of each layer and puts a layer
\* whose reference names no layer of the group at (0, 0)
RelativePassDefaulting(pos, info) ==
    [i \in 1..Len(pos) |->
        IF /\ info[i].info.position.some
           /\ info[i].info.position.relative_to.kind = "Layer"
           /\ FindLayer(info, info[i].info.position.relative_to.name) = 0
        THEN [pos[i] EXCEPT !.x = 0, !.y = 0]
        ELSE pos[i]]

RelativePass(pos, info) == ApplyAdjustments(pos, RelativeAdjustments(pos, info))

(***************************************************************************)
(* Group::calculate_positions.  With a Grid of 0 columns the division      *)
(* (layers_info.len() + columns - 1) / columns panics.                     *)
(***************************************************************************)
CalculatePanics(layout, info) ==
    layout.layout_type = "Grid" /\ layout.columns = 0

calculate_positions(layout, info) ==
    RelativePass(PlacePositions(layout, info), info)

(***************************************************************************)
(* Inputs: the templates the model draws from.                             *)
(***************************************************************************)
LayoutTypes == {"Vertical", "Horizontal", "Grid"}
Aligns == {"Left", "Center", "Right"}
Distributions == {"None", "SpaceBetween", "SpaceAround", "SpaceEvenly"}
BasePositions == {<<0, 0>>, <<7, 3>>}
Spacings == {default_spacing, 5, 10}
LayerSizes == {<<40, 10>>, <<60, 20>>}
UniformSize == <<50, 50>>
SizeByIndex == <<<<40, 10>>, <<60, 20>>, <<50, 30>>, <<50, 50>>>>
BoundsSet == {NoBounds, SomeBounds(200, 200), SomeBounds(30, 30)}
LayerNames == <<"A", "B", "C", "D", "E", "F">>

DistributionConfigs ==
    {NoDistribution} \cup
    {SomeDistribution(hm, vm, b) : hm \in Distributions, vm \in Distributions,
                                   b \in BoundsSet}

\* the columns field is read by the Grid branches alone
ColumnsOf(t) == IF t = "Grid" THEN 0..MaxColumns ELSE {default_columns}

Layouts ==
    UNION {
      { [layout_type |-> t,
         position |-> [x |-> b[1], y |-> b[2], align |-> a],
         spacing |-> s, columns |-> c, distribution |-> d]
        : a \in Aligns, b \in BasePositions, s \in Spacings,
          c \in ColumnsOf(t), d \in DistributionConfigs }
      : t \in LayoutTypes }

MkLayer(n, pos, size) ==
    [info |-> [name |-> n, position |-> pos],
     dims |-> [width |-> size[1], height |-> size[2]]]

\* layers named by index, no declared position, of the given sizes
PlainLayers(sizes) ==
    [i \in 1..Len(sizes) |-> MkLayer(LayerNames[i], NoPosition, sizes[i])]

\* the lists of sizes: every list over LayerSizes, the lists of equal sizes and
\* the lists of pairwise different sizes
SizeLists ==
    UNION {[1..n -> LayerSizes] : n \in 0..MaxLayers}
    \cup {[i \in 1..n |-> UniformSize] : n \in 1..MaxUniform}
    \cup {SubSeq(SizeByIndex, 1, n) : n \in 1..MaxLayers}

\* what the first pass of main collects for a group: (dims, &info) per layer
Measured(layers) ==
    [i \in 1..Len(layers) |-> [dims |-> layers[i].dims, info |-> layers[i].info]]

(***************************************************************************)
(* The driver: main, "Process each group".                                 *)
(***************************************************************************)
StartPc(gs, g) ==
    IF g > Len(gs) THEN "save"
    ELSE IF Len(gs[g].layers) = 0 THEN "calculate" ELSE "measure"

\* First pass: layer.get_dimensions()? for the next layer of the group; the
\* font or the image file may be missing
MeasureLayer ==
    /\ pc = "measure"
    /\ \E ok \in BOOLEAN :
         IF ok
         THEN LET layer == groups[gi].layers[li] IN
              /\ layer_info' = Append(layer_info,
                                      [dims |-> layer.dims, info |-> layer.info])
              /\ li' = li + 1
              /\ pc' = IF li = Len(groups[gi].layers) THEN "calculate" ELSE "measure"
         ELSE /\ pc' = "failed"
              /\ UNCHANGED <<layer_info, li>>
    /\ UNCHANGED <<groups, gi, positions, drawn, saved, resolved>>

\* let positions = group.calculate_positions(&layer_info)
CalculatePositions ==
    /\ pc = "calculate"
    /\ IF CalculatePanics(groups[gi].layout, layer_info)
       THEN /\ pc' = "panicked"
            /\ UNCHANGED <<gi, li, positions, layer_info>>
       ELSE /\ positions' = calculate_positions(groups[gi].layout, layer_info)
            /\ IF Len(groups[gi].layers) = 0
               THEN /\ gi' = gi + 1
                    /\ pc' = StartPc(groups, gi + 1)
                    /\ layer_info' = <<>>
               ELSE /\ pc' = "draw"
                    /\ UNCHANGED <<gi, layer_info>>
            /\ li' = 1
    /\ UNCHANGED <<groups, drawn, saved, resolved>>

\* the second pass pairing the layers with the positions in reverse
DrawLayerReversedZip ==
    /\ pc = "draw"
    /\ \E ok \in BOOLEAN :
         IF ok
         THEN LET layer == groups[gi].layers[li]
                  position == positions[Len(positions) + 1 - li]
              IN  /\ drawn' = Append(drawn, [group |-> gi, layer |-> li,
                                             name |-> layer.info.name,
                                             x |-> position.x, y |-> position.y])
                  /\ IF li = Len(groups[gi].layers)
                     THEN /\ gi' = gi + 1
                          /\ pc' = StartPc(groups, gi + 1)
                          /\ li' = 1
                          /\ layer_info' = <<>>
                     ELSE /\ li' = li + 1
                          /\ UNCHANGED <<gi, pc, layer_info>>
         ELSE /\ pc' = "failed"
              /\ UNCHANGED <<gi, li, layer_info, drawn>>
    /\ UNCHANGED <<groups, positions, saved, resolved>>

\* the second pass skipping a layer that fails instead of returning the error
DrawLayerSkipFailed ==
    /\ pc = "draw"
    /\ \E ok \in BOOLEAN :
         LET layer == groups[gi].layers[li]
             position == positions[li]
         IN  /\ drawn' = IF ok
                         THEN Append(drawn, [group |-> gi, layer |-> li,
                                             name |-> layer.info.name,
                                             x |-> position.x, y |-> position.y])
                         ELSE drawn
             /\ IF li = Len(groups[gi].layers)
                THEN /\ gi' = gi + 1
                     /\ pc' = StartPc(groups, gi + 1)
                     /\ li' = 1
                     /\ layer_info' = <<>>
                ELSE /\ li' = li + 1
                     /\ UNCHANGED <<gi, pc, layer_info>>
    /\ UNCHANGED <<groups, positions, saved, resolved>>

\* Second pass: the next (layer, position) pair of the zip gets
\* info.position = Some(position), is validated and drawn; validate, the font
\* or the image may fail
DrawLayer ==
    /\ pc = "draw"
    /\ \E ok \in BOOLEAN :
         IF ok
         THEN LET layer == groups[gi].layers[li]
                  position == positions[li]
              IN  /\ drawn' = Append(drawn, [group |-> gi, layer |-> li,
                                             name |-> layer.info.name,
                                             x |-> position.x, y |-> position.y])
                  /\ IF li = Len(groups[gi].layers)
                     THEN /\ gi' = gi + 1
                          /\ pc' = StartPc(groups, gi + 1)
                          /\ li' = 1
                          /\ layer_info' = <<>>
                     ELSE /\ li' = li + 1
                          /\ UNCHANGED <<gi, pc, layer_info>>
         ELSE /\ pc' = "failed"
              /\ UNCHANGED <<gi, li, layer_info, drawn>>
    /\ UNCHANGED <<groups, positions, saved, resolved>>

\* canvas.save("output/result.png")?
SaveImage ==
    /\ pc = "save"
    /\ \E ok \in BOOLEAN :
         /\ saved' = ok
         /\ pc' = IF ok THEN "done" ELSE "failed"
    /\ UNCHANGED <<groups, gi, layer_info, li, positions, drawn, resolved>>

Next == MeasureLayer \/ CalculatePositions \/ DrawLayer \/ SaveImage

(***************************************************************************)
(* Spec: main over templates of up to MaxGroups groups, each of up to      *)
(* MaxGroupLayers layers that declare no position of their own.            *)
(***************************************************************************)
TemplateLayouts ==
    { [layout_type |-> "Vertical", position |-> [x |-> 7, y |-> 3, align |-> "Left"],
       spacing |-> 5, columns |-> default_columns, distribution |-> NoDistribution],
      [layout_type |-> "Horizontal", position |-> [x |-> 7, y |-> 3, align |-> "Center"],
       spacing |-> 5, columns |-> default_columns,
       distribution |-> SomeDistribution("SpaceBetween", "None", SomeBounds(200, 200))],
      [layout_type |-> "Grid", position |-> [x |-> 0, y |-> 0, align |-> "Left"],
       spacing |-> 10, columns |-> 2,
       distribution |-> SomeDistribution("SpaceAround", "SpaceEvenly", SomeBounds(200, 200))],
      [layout_type |-> "Grid", position |-> [x |-> 0, y |-> 0, align |-> "Left"],
       spacing |-> 10, columns |-> 0, distribution |-> NoDistribution],
      [layout_type |-> "Grid", position |-> [x |-> 7, y |-> 3, align |-> "Right"],
       spacing |-> 10, columns |-> 2, distribution |-> NoDistribution] }

PlainGroups ==
    { [layout |-> l, layers |-> PlainLayers(SubSeq(SizeByIndex, 1, n))]
      : l \in TemplateLayouts, n \in 0..MaxGroupLayers }

\* main before the loop over template.groups
InitMain ==
    /\ gi = 1
    /\ pc = StartPc(groups, 1)
    /\ layer_info = <<>>
    /\ li = 1
    /\ positions = <<>>
    /\ drawn = <<>>
    /\ saved = FALSE
    /\ resolved = <<>>

Init ==
    /\ groups \in UNION {[1..n -> PlainGroups] : n \in 1..MaxGroups}
    /\ InitMain

Spec == Init /\ [][Next]_vars

(***************************************************************************)
(* SpecRelative: main over templates of one group whose layers may declare *)
(* a position relative to the canvas or to a named layer.                  *)
(***************************************************************************)
DeclaredPositions ==
    {NoPosition, SomePosition(1, 2, Canvas),
     SomePosition(1, 2, Layer("A")), SomePosition(1, 2, Layer("B")),
     SomePosition(1, 2, Layer("Z"))}

TemplateLayerLists ==
    UNION { { [i \in 1..n |-> MkLayer(LayerNames[i], decl[i], SizeByIndex[i])]
              : decl \in [1..n -> DeclaredPositions] }
            : n \in 0..MaxGroupLayers }

TemplateGroups ==
    { [layout |-> l, layers |-> ls] : l \in TemplateLayouts, ls \in TemplateLayerLists }

InitRelative ==
    /\ groups \in {<<g>> : g \in TemplateGroups}
    /\ InitMain

SpecRelative == InitRelative /\ [][Next]_vars

(***************************************************************************)
(* SpecLayout: calculate_positions as a function of the layout and of the  *)
(* measured layers of one group, every layer measured.                     *)
(***************************************************************************)
InitLayout ==
    /\ \E layout \in Layouts, sizes \in SizeLists :
         /\ groups = <<[layout |-> layout, layers |-> PlainLayers(sizes)]>>
         /\ layer_info = Measured(PlainLayers(sizes))
         /\ li = Len(sizes) + 1
    /\ gi = 1
    /\ pc = "calculate"
    /\ positions = <<>>
    /\ drawn = <<>>
    /\ saved = FALSE
    /\ resolved = <<>>

NextLayout == CalculatePositions

SpecLayout == InitLayout /\ [][NextLayout]_vars

(***************************************************************************)
(* SpecResolve: the relative positioning pass as a function of a list of   *)
(* positions and of the layers' names, applied once and then once more to  *)
(* its own result.                                                         *)
(***************************************************************************)
PassNames == {"A", "B", "C"}
PassRelatives == {Canvas} \cup {Layer(n) : n \in PassNames \cup {"Z"}}

\* the position of index i before the pass: distinct coordinates per index
RawPosition(i, rel) == [x |-> 10 * i, y |-> 10 * i + 1, relative_to |-> rel]

InitResolve ==
    /\ \E n \in 0..MaxPassLayers :
         \E names \in [1..n -> PassNames], rels \in [1..n -> PassRelatives] :
           /\ layer_info = [i \in 1..n |->
                              [dims |-> [width |-> 0, height |-> 0],
                               info |-> [name |-> names[i], position |-> NoPosition]]]
           /\ positions = [i \in 1..n |-> RawPosition(i, rels[i])]
    /\ groups = <<>>
    /\ gi = 1
    /\ pc = "resolve"
    /\ li = 1
    /\ drawn = <<>>
    /\ saved = FALSE
    /\ resolved = <<>>

ResolvePass ==
    /\ pc \in {"resolve", "resolved"}
    /\ resolved' = RelativePass(IF pc = "resolve" THEN positions ELSE resolved,
                                layer_info)
    /\ pc' = IF pc = "resolve" THEN "resolved" ELSE "resolved_twice"
    /\ UNCHANGED <<groups, gi, layer_info, li, positions, drawn, saved>>

NextResolve == ResolvePass

SpecResolve == InitResolve /\ [][NextResolve]_vars

(***************************************************************************)
(* Properties of calculate_positions, stated over SpecLayout: the one      *)
(* group of the template, its measured layers, and the call's outcome.     *)
(***************************************************************************)
TheLayout == groups[1].layout
TheLayers == groups[1].layers
TheInfo == Measured(groups[1].layers)
NumLayers == Len(groups[1].layers)

\* calculate_positions has been called / has returned its positions
Called == pc # "calculate"
Returned == pc \notin {"calculate", "panicked"}

HasBounds == TheLayout.distribution.some /\ TheLayout.distribution.bounds.some

\* C1: for every layout policy and every list of measured layers,
\* calculate_positions returns exactly one position per input layer (position
\* i being that of layer i).
C1_OnePositionPerLayer ==
    Called => /\ pc # "panicked"
              /\ Len(positions) = NumLayers

\* C2: for an empty list of measured layers calculate_positions returns an
\* empty list without any arithmetic failure, for every layout type, every
\* distribution mode on each axis, with or without bounds.
C2_EmptyGroupEmptyResult ==
    (Called /\ NumLayers = 0) => /\ pc # "panicked"
                                 /\ positions = <<>>

\* C3: in a Vertical layout with Left alignment every item's x is the base x,
\* the first item's y is the base y and each following item's y is the
\* previous y + the previous height + spacing; heights 10, 20, 30 with spacing
\* 5 from (0, 0) give y = 0, 15, 40 and x = 0.
C3_VerticalCumulative ==
    (Returned /\ TheLayout.layout_type = "Vertical" /\ TheLayout.position.align = "Left")
    => /\ Len(positions) = NumLayers
       /\ \A i \in 1..NumLayers :
            /\ positions[i].x = TheLayout.position.x
            /\ i = 1 => positions[i].y = TheLayout.position.y
            /\ i > 1 => positions[i].y =
                          positions[i - 1].y + TheLayers[i - 1].dims.height
                            + TheLayout.spacing
       /\ ( /\ Heights(TheInfo) = <<10, 20, 30>>
            /\ TheLayout.spacing = 5
            /\ TheLayout.position.x = 0 /\ TheLayout.position.y = 0 )
          => /\ [i \in 1..3 |-> positions[i].y] = <<0, 15, 40>>
             /\ [i \in 1..3 |-> positions[i].x] = <<0, 0, 0>>

C3_Witness ==
    /\ Returned
    /\ TheLayout.layout_type = "Vertical" /\ TheLayout.position.align = "Left"
    /\ Heights(TheInfo) = <<10, 20, 30>>
    /\ TheLayout.spacing = 5
    /\ TheLayout.position.x = 0 /\ TheLayout.position.y = 0
    /\ [i \in 1..3 |-> positions[i].y] = <<0, 15, 40>>

\* C4: in a Horizontal layout with a container bound of width W and
\* SpaceBetween on the horizontal axis the first item is at the base x and each
\* following item at the previous x + the previous width + (W - sum of the
\* widths) / (n - 1); widths 40, 60 with W = 200 from x = 0 give x = 0, 140.
C4_HorizontalSpaceBetween ==
    ( /\ Returned
      /\ TheLayout.layout_type = "Horizontal"
      /\ TheLayout.position.align = "Left"
      /\ HasBounds
      /\ TheLayout.distribution.horizontal = "SpaceBetween"
      /\ TheLayout.distribution.bounds.width >= SumSeq(Widths(TheInfo))
      /\ NumLayers >= 2 )
    => /\ positions[1].x = TheLayout.position.x
       /\ \A i \in 2..NumLayers :
            positions[i].x =
              positions[i - 1].x + TheLayers[i - 1].dims.width
                + SatSub(TheLayout.distribution.bounds.width, SumSeq(Widths(TheInfo)))
                    \div (NumLayers - 1)

\* C5: in a Grid layout without a distribution config whose items all have the
\* same size w x h, item i (from 0) is at (x + (i mod columns) (w + spacing),
\* y + (i div columns) (h + spacing)) for the policy's x, y, whatever the
\* group's alignment; 4 items of 50 x 50 in 2 columns with spacing 10 from
\* (0, 0) are at (0,0), (60,0), (0,60), (60,60).
UniformLayers == \A i \in 1..NumLayers : TheLayers[i].dims = TheLayers[1].dims

C5_GridFallbackUniform ==
    ( /\ Returned
      /\ TheLayout.layout_type = "Grid"
      /\ ~TheLayout.distribution.some
      /\ UniformLayers )
    => /\ Len(positions) = NumLayers
       /\ \A i \in 1..NumLayers :
            /\ positions[i].x =
                 TheLayout.position.x
                   + ((i - 1) % TheLayout.columns)
                       * (TheLayers[1].dims.width + TheLayout.spacing)
            /\ positions[i].y =
                 TheLayout.position.y
                   + ((i - 1) \div TheLayout.columns)
                       * (TheLayers[1].dims.height + TheLayout.spacing)

C5_Witness ==
    /\ Returned
    /\ TheLayout.layout_type = "Grid" /\ ~TheLayout.distribution.some
    /\ TheLayout.columns = 2 /\ TheLayout.spacing = 10
    /\ TheLayout.position = [x |-> 0, y |-> 0, align |-> "Right"]
    /\ NumLayers = 4
    /\ \A i \in 1..4 : TheLayers[i].dims = [width |-> 50, height |-> 50]
    /\ [i \in 1..4 |-> <<positions[i].x, positions[i].y>>]
         = << <<0, 0>>, <<60, 0>>, <<0, 60>>, <<60, 60>> >>

\* C8: when the container bound (distribution.bounds) is smaller than the
\* content extent on an axis the slack is floored at zero: no returned
\* position component is negative, every x is at least the policy's x and
\* every y at least the policy's y, and when the bound is narrower than the
\* content Center and Right alignment add nothing to the base x (the first
\* item is at the policy's x plus the grid's initial offset).
BoundBelowContentWidth ==
    HasBounds /\ TheLayout.distribution.bounds.width < TotalDimensions(TheLayout, TheInfo)[1]

BoundBelowContentHeight ==
    HasBounds /\ TheLayout.distribution.bounds.height < TotalDimensions(TheLayout, TheInfo)[2]

FirstItemOffsetX ==
    IF TheLayout.layout_type = "Grid" THEN InitX(TheLayout, TheInfo) ELSE 0

C8_SlackFlooredAtZero ==
    (Returned /\ HasBounds)
    => LET total == TotalDimensions(TheLayout, TheInfo)
           narrow == TheLayout.distribution.bounds.width < total[1]
           low == TheLayout.distribution.bounds.height < total[2]
       IN  (narrow \/ low)
           => /\ \A i \in 1..Len(positions) :
                   /\ positions[i].x >= 0 /\ positions[i].y >= 0
                   /\ positions[i].x >= TheLayout.position.x
                   /\ positions[i].y >= TheLayout.position.y
              /\ (narrow /\ Len(positions) >= 1)
                 => positions[1].x = TheLayout.position.x + FirstItemOffsetX

C8_Witness ==
    /\ Returned
    /\ BoundBelowContentWidth /\ BoundBelowContentHeight
    /\ TheLayout.position.align = "Right"
    /\ Len(positions) = 3
    /\ positions[1].x = TheLayout.position.x
    /\ positions[3].y > TheLayout.position.y

\* C9: a group with exactly one layer never fails under SpaceBetween,
\* SpaceAround or SpaceEvenly on either axis, for every layout type; under
\* SpaceBetween with one column and one row the inter-item spacing is 0 and the
\* item is at the base position.
DistributedAxis ==
    /\ TheLayout.distribution.some
    /\ \/ TheLayout.distribution.horizontal # "None"
       \/ TheLayout.distribution.vertical # "None"

C9_SingleLayerNeverFails ==
    (Called /\ NumLayers = 1 /\ DistributedAxis)
    => /\ pc # "panicked"
       /\ Len(positions) = 1
       /\ ( /\ TheLayout.distribution.horizontal = "SpaceBetween"
            /\ TheLayout.distribution.vertical = "SpaceBetween"
            /\ TheLayout.layout_type = "Grid" => TheLayout.columns = 1 )
          => /\ positions[1].x = CurrentX(TheLayout, TheInfo)
             /\ positions[1].y = TheLayout.position.y

(***************************************************************************)
(* Properties of the relative positioning, stated over SpecRelative (the   *)
(* one group of the template through main) and SpecResolve (the pass on    *)
(* its own).                                                               *)
(***************************************************************************)
\* layer i of the group declares its position relative to a named layer
DeclaresLayer(g, i) ==
    /\ groups[g].layers[i].info.position.some
    /\ groups[g].layers[i].info.position.relative_to.kind = "Layer"

\* the index of the layer that layer i of group g refers to, 0 if there is none
DeclaredTarget(g, i) ==
    FindLayer(Measured(groups[g].layers),
              groups[g].layers[i].info.position.relative_to.name)

\* what the layout computes for the layers of group g, before any resolution
LayoutPositions(g) == PlacePositions(groups[g].layout, Measured(groups[g].layers))

\* C6: if layer B declares its position relative to Layer("A") and A is a
\* layer of the same group, the position returned for B has the (x, y) the
\* layout computed for A.
C6_RelativeTakesTargetPosition ==
    pc = "draw"
    => \A b \in 1..Len(groups[gi].layers) :
         (DeclaresLayer(gi, b) /\ DeclaredTarget(gi, b) # 0)
         => /\ positions[b].x = LayoutPositions(gi)[DeclaredTarget(gi, b)].x
            /\ positions[b].y = LayoutPositions(gi)[DeclaredTarget(gi, b)].y

HasUnresolved(g) ==
    \E i \in 1..Len(groups[g].layers) : DeclaresLayer(g, i) /\ DeclaredTarget(g, i) = 0

C10_UnresolvedAbortsRender ==
    /\ \A k \in 1..Len(drawn) : ~HasUnresolved(drawn[k].group)
    /\ saved => \A g \in 1..Len(groups) : ~HasUnresolved(g)

\* C10 as amended: a reference to a layer name that no layer of the group has
\* is ignored without any error: calculate_positions returns for that layer the
\* position the layout computed for it and main draws the layer there.
C10_UnresolvedKeepsLayoutPosition ==
    /\ pc = "draw"
       => /\ Len(positions) = Len(groups[gi].layers)
          /\ \A i \in 1..Len(positions) :
               (DeclaresLayer(gi, i) /\ DeclaredTarget(gi, i) = 0)
               => /\ positions[i].x = LayoutPositions(gi)[i].x
                  /\ positions[i].y = LayoutPositions(gi)[i].y
    /\ \A k \in 1..Len(drawn) :
         LET g == drawn[k].group
             i == drawn[k].layer
         IN  (DeclaresLayer(g, i) /\ DeclaredTarget(g, i) = 0)
             => /\ drawn[k].x = LayoutPositions(g)[i].x
                /\ drawn[k].y = LayoutPositions(g)[i].y

C10_Witness ==
    /\ saved
    /\ \E k \in 1..Len(drawn) :
         /\ DeclaresLayer(drawn[k].group, drawn[k].layer)
         /\ DeclaredTarget(drawn[k].group, drawn[k].layer) = 0
         /\ <<drawn[k].x, drawn[k].y>> # <<0, 0>>

(***************************************************************************)
(* Properties of main's loop over the groups, stated over Spec.            *)
(***************************************************************************)
\* how many layers the groups before group g declare
LayersBefore(g) == SumSeq([h \in 1..(g - 1) |-> Len(groups[h].layers)])

\* what calculate_positions returns for group g
GroupPositions(g) ==
    calculate_positions(groups[g].layout, Measured(groups[g].layers))

\* C11: main draws the groups in their declaration order and, within a group,
\* the layers in their declaration order (the k-th draw is that of the k-th
\* layer of the template), and each layer is drawn at the position
\* calculate_positions returned for the layer's own index.
C11_DrawnInDeclarationOrder ==
    \A k \in 1..Len(drawn) :
      LET g == drawn[k].group
          i == drawn[k].layer
      IN  /\ g \in 1..Len(groups)
          /\ i \in 1..Len(groups[g].layers)
          /\ k = LayersBefore(g) + i
          /\ drawn[k].name = groups[g].layers[i].info.name
          /\ drawn[k].x = GroupPositions(g)[i].x
          /\ drawn[k].y = GroupPositions(g)[i].y

C11_Witness ==
    /\ saved
    /\ Len(groups) = 2
    /\ Len(drawn) = 4
    /\ drawn[3].group = 2
    /\ <<drawn[3].x, drawn[3].y>> # <<drawn[4].x, drawn[4].y>>

(***************************************************************************)
(* Further properties of calculate_positions, stated over SpecLayout.      *)
(***************************************************************************)
\* C12: calculate_positions is total: for every layout a template can carry
\* (any spacing, any columns including an explicit 0, any layout type, any
\* distribution config) and every list of measured layers it returns
\* positions without panicking, and the columns value a Grid divides by is
\* at least 1.
C12_TotalForAnyColumns ==
    /\ pc # "panicked"
    /\ (Called /\ TheLayout.layout_type = "Grid") => TheLayout.columns >= 1

\* C13: the group's base x (the x of the first item, less the grid's initial
\* offset) is the policy's x adjusted by alignment against the container
\* width, which is distribution.bounds.width if present and the total content
\* width otherwise: Left adds nothing, Center floor(slack / 2), Right the
\* slack, the slack being container - content floored at zero; without
\* bounds every alignment returns the positions Left returns.
AlignmentShift ==
    LET total_width == TotalDimensions(TheLayout, TheInfo)[1]
        container == IF HasBounds THEN TheLayout.distribution.bounds.width
                     ELSE total_width
        slack == IF container >= total_width THEN container - total_width ELSE 0
    IN  CASE TheLayout.position.align = "Left" -> 0
          [] TheLayout.position.align = "Center" -> slack \div 2
          [] TheLayout.position.align = "Right" -> slack

C13_BaseXAlignedToContainer ==
    Returned
    => /\ NumLayers >= 1
          => positions[1].x
               = TheLayout.position.x + AlignmentShift + FirstItemOffsetX
       /\ ~HasBounds
          => positions
               = calculate_positions([TheLayout EXCEPT !.position.align = "Left"],
                                     TheInfo)

C13_Witness ==
    /\ Returned
    /\ TheLayout.layout_type = "Vertical"
    /\ TheLayout.position = [x |-> 7, y |-> 3, align |-> "Center"]
    /\ HasBounds /\ TheLayout.distribution.bounds.width = 200
    /\ NumLayers = 2
    /\ MaxSeq(Widths(TheInfo)) = 60
    /\ positions[1].x = 77

\* C14: in a Grid with a distribution config, with n = columns on the
\* horizontal axis and n = rows on the vertical one and slack = bound - content
\* size (the first row's widths, the first column's heights) floored at zero,
\* SpaceAround puts the first item slack / (n + 1) from the base and the items
\* slack / (n + 1) apart, and SpaceEvenly slack / (n + 2) from the base and
\* slack / (n + 2) apart.
DistributedGap(mode, slack, n) ==
    CASE mode = "SpaceAround" -> slack \div (n + 1)
      [] mode = "SpaceEvenly" -> slack \div (n + 2)

C14_SpaceAroundAndSpaceEvenly ==
    ( /\ Returned
      /\ TheLayout.layout_type = "Grid"
      /\ TheLayout.distribution.some
      /\ NumLayers >= 1 )
    => LET columns == TheLayout.columns
           rows == GridRows(NumLayers, columns)
           bounds == DistBounds(TheLayout, TheInfo)
           h_mode == TheLayout.distribution.horizontal
           v_mode == TheLayout.distribution.vertical
           h_slack == SatSub(bounds[1], FirstRowWidth(TheLayout, TheInfo))
           v_slack == SatSub(bounds[2], FirstColumnHeight(TheLayout, TheInfo))
       IN  /\ h_mode \in {"SpaceAround", "SpaceEvenly"}
              => LET gap == DistributedGap(h_mode, h_slack, columns) IN
                 /\ positions[1].x = CurrentX(TheLayout, TheInfo) + gap
                 /\ \A i \in 2..NumLayers :
                      (i - 1) % columns # 0
                      => positions[i].x
                           = positions[i - 1].x + TheLayers[i - 1].dims.width + gap
           /\ v_mode \in {"SpaceAround", "SpaceEvenly"}
              => LET gap == DistributedGap(v_mode, v_slack, rows) IN
                 /\ positions[1].y = TheLayout.position.y + gap
                 /\ NumLayers > columns
                    => positions[columns + 1].y
                         = positions[columns].y + TheLayers[columns].dims.height
                             + gap

\* C15: in every Grid layout, with or without a distribution config and for
\* items of any sizes, the items are placed in rows of `columns` items: within
\* a row an item's x is the previous item's x + the previous item's width +
\* the column spacing, the first item of each row is at the base x (+ the
\* initial offset), and the items of a row share one y, which exceeds the
\* previous row's y by the height of an item of that row + the row spacing.
C15_GridRowsOfColumns ==
    (Returned /\ TheLayout.layout_type = "Grid")
    => LET columns == TheLayout.columns
           column_spacing == IF TheLayout.distribution.some
                             THEN HSpacing(TheLayout, TheInfo)
                             ELSE TheLayout.spacing
           row_spacing == IF TheLayout.distribution.some
                          THEN VSpacing(TheLayout, TheInfo)
                          ELSE TheLayout.spacing
           row_x == CurrentX(TheLayout, TheInfo) + FirstItemOffsetX
       IN  \A i \in 1..NumLayers :
             IF (i - 1) % columns = 0
             THEN /\ positions[i].x = row_x
                  /\ i > 1
                     => \E j \in (i - columns)..(i - 1) :
                          positions[i].y
                            = positions[i - columns].y + TheLayers[j].dims.height
                                + row_spacing
             ELSE /\ positions[i].x
                       = positions[i - 1].x + TheLayers[i - 1].dims.width
                           + column_spacing
                  /\ positions[i].y = positions[i - 1].y

\* C16: in a Vertical layout each item's x is adjusted per item by the
\* alignment against the container width W (Left: nothing, Center:
\* (W - item width) / 2, Right: W - item width), so that under Center or Right
\* items of different widths get different x; Horizontal is the same with y,
\* the item heights and the container height.
CrossAxisShift(container, size) ==
    CASE TheLayout.position.align = "Left" -> 0
      [] TheLayout.position.align = "Center" -> (container - size) \div 2
      [] TheLayout.position.align = "Right" -> container - size

C16_CrossAxisAlignmentPerItem ==
    Returned
    => LET total == TotalDimensions(TheLayout, TheInfo)
           W == IF HasBounds THEN TheLayout.distribution.bounds.width ELSE total[1]
           H == IF HasBounds THEN TheLayout.distribution.bounds.height ELSE total[2]
       IN  /\ TheLayout.layout_type = "Vertical"
              => \A i, j \in 1..NumLayers :
                   LET wi == TheLayers[i].dims.width
                       wj == TheLayers[j].dims.width
                   IN  (W >= wi /\ W >= wj)
                       => positions[i].x - CrossAxisShift(W, wi)
                            = positions[j].x - CrossAxisShift(W, wj)
           /\ TheLayout.layout_type = "Horizontal"
              => \A i, j \in 1..NumLayers :
                   LET hi == TheLayers[i].dims.height
                       hj == TheLayers[j].dims.height
                   IN  (H >= hi /\ H >= hj)
                       => positions[i].y - CrossAxisShift(H, hi)
                            = positions[j].y - CrossAxisShift(H, hj)

C18_PlacedPositionsAreCanvas ==
    pc = "draw"
    => /\ \A i \in 1..Len(positions) : positions[i].relative_to = Canvas
       /\ \A i \in 1..Len(groups[gi].layers) :
            LayoutPositions(gi)[i].relative_to = Canvas
       /\ RelativeAdjustments(LayoutPositions(gi), layer_info) = <<>>

C18_Witness ==
    /\ pc = "draw"
    /\ groups[gi].layout.layout_type = "Horizontal"
    /\ Len(positions) = 2
    /\ DeclaresLayer(gi, 2) /\ DeclaredTarget(gi, 2) = 1
    /\ positions[2].relative_to = Canvas
    /\ positions[2].x > positions[1].x

(***************************************************************************)
(* The order of main's steps and its failures, stated over Spec.           *)
(***************************************************************************)
\* C19: the render is fail-fast: all layers of a group are measured before
\* its positions are computed and before any of its layers is drawn; once
\* measuring, validating or drawing a layer has failed main takes no further
\* step, so it draws no further layer and never saves the image; and the image
\* is saved only when every layer of every group has been drawn.
C19_FailFast ==
    /\ pc \in {"calculate", "draw"}
       => Len(layer_info) = Len(groups[gi].layers)
    /\ \A k \in 1..Len(drawn) :
         IF pc \in {"measure", "calculate"}
         THEN drawn[k].group < gi
         ELSE drawn[k].group <= gi
    /\ pc \in {"failed", "panicked"} => (~saved /\ ~ENABLED Next)
    /\ saved => /\ pc = "done"
                /\ Len(drawn) = LayersBefore(Len(groups) + 1)

C19_Witness ==
    /\ pc = "failed"
    /\ Len(groups) = 2 /\ gi = 2
    /\ Len(layer_info) = 2 /\ li = 2
    /\ Len(drawn) = 3
    /\ ~saved

====
